---- MODULE Spec2Model ----
(***************************************************************************)
(* Model of the NL-to-SQL agent: the SQL safety gate and statement         *)
(* normaliser of sql_validator.py (pure functions over character           *)
(* sequences) and the generate / gate / limit / execute retry loop of      *)
(* NLToSQLAgent.query in agent.py.                                         *)
(*                                                                         *)
(* A Python str is modelled as a sequence of one-character strings.        *)
(* A formatted message (str(e), an f-string) is a sequence of its parts.   *)
(***************************************************************************)
EXTENDS Integers, Sequences, FiniteSets, TLC

(***************************************************************************)
(* Bounds of the model.                                                    *)
(***************************************************************************)
\* longest gate input, counted in lexical fragments
MaxFrags == 4
\* largest MAX_RETRIES setting explored
MaxRetriesBound == 3
\* number of query() calls made on one agent
MaxSessions == 2
\* longest normaliser input, counted in lexical fragments
MaxNormFrags == 4

(***************************************************************************)
(* Python str primitives.                                                  *)
(***************************************************************************)
LowerAlpha ==
  <<"a","b","c","d","e","f","g","h","i","j","k","l","m",
    "n","o","p","q","r","s","t","u","v","w","x","y","z">>

UpperAlpha ==
  <<"A","B","C","D","E","F","G","H","I","J","K","L","M",
    "N","O","P","Q","R","S","T","U","V","W","X","Y","Z">>

DigitChars == <<"0","1","2","3","4","5","6","7","8","9">>

\* str.upper() on one character
UpperChar(c) ==
  IF \E i \in 1..26 : LowerAlpha[i] = c
    THEN UpperAlpha[CHOOSE i \in 1..26 : LowerAlpha[i] = c]
    ELSE c

\* str.upper()
upper(s) == [i \in 1..Len(s) |-> UpperChar(s[i])]

\* the characters str.strip(), str.split() and the regex class \s treat as blank
IsSpace(c) == c \in {" ", "\n", "\t", "\r"}

\* the regex class \w
IsWordChar(c) ==
  \/ \E i \in 1..26 : c = LowerAlpha[i] \/ c = UpperAlpha[i]
  \/ \E i \in 1..10 : c = DigitChars[i]
  \/ c = "_"

\* s[i:i+len(p)] == p, with 1-based i
MatchAt(s, i, p) ==
  /\ i >= 1
  /\ i + Len(p) - 1 <= Len(s)
  /\ \A k \in 1..Len(p) : s[i + k - 1] = p[k]

\* p in s
Contains(s, p) == \E i \in 1..(Len(s) + 1) : MatchAt(s, i, p)

\* s.startswith(p)
startswith(s, p) == MatchAt(s, 1, p)

\* s.endswith(p)
endswith(s, p) == MatchAt(s, Len(s) - Len(p) + 1, p)

\* s[i-1:j] with 1-based inclusive bounds; empty when j < i
Slice(s, i, j) == [k \in 1..(IF j >= i THEN j - i + 1 ELSE 0) |-> s[i + k - 1]]

\* the value a one-element set holds: binds the result of one step before the
\* next step uses it, as an assignment does
Value(S) == CHOOSE x \in S : TRUE

\* s.lstrip()
lstrip(s) ==
  LET first == IF \E i \in 1..Len(s) : ~IsSpace(s[i])
                 THEN CHOOSE i \in 1..Len(s) :
                        /\ ~IsSpace(s[i])
                        /\ \A k \in 1..(i - 1) : IsSpace(s[k])
                 ELSE Len(s) + 1
  IN  Slice(s, first, Len(s))

\* s.rstrip()
rstrip(s) ==
  LET last == IF \E i \in 1..Len(s) : ~IsSpace(s[i])
                THEN CHOOSE i \in 1..Len(s) :
                       /\ ~IsSpace(s[i])
                       /\ \A k \in (i + 1)..Len(s) : IsSpace(s[k])
                ELSE 0
  IN  Slice(s, 1, last)

\* s.strip()
strip(s) == Value({lstrip(r) : r \in {rstrip(s)}})

\* s.rstrip(';')
rstripSemicolons(s) ==
  LET last == IF \E i \in 1..Len(s) : s[i] # ";"
                THEN CHOOSE i \in 1..Len(s) :
                       /\ s[i] # ";"
                       /\ \A k \in (i + 1)..Len(s) : s[k] = ";"
                ELSE 0
  IN  Slice(s, 1, last)

\* s.count(c) for a one-character c
count(s, c) == Cardinality({i \in 1..Len(s) : s[i] = c})

\* str(n) for a non-negative integer
RECURSIVE IntToStr(_)
IntToStr(n) ==
  IF n < 10 THEN <<DigitChars[n + 1]>>
            ELSE IntToStr(n \div 10) \o <<DigitChars[(n % 10) + 1]>>

(***************************************************************************)
(* SQLValidator (sql_validator.py).                                        *)
(***************************************************************************)
DANGEROUS_KEYWORDS ==
  << [name |-> "DROP",     word |-> <<"D","R","O","P">>],
     [name |-> "DELETE",   word |-> <<"D","E","L","E","T","E">>],
     [name |-> "TRUNCATE", word |-> <<"T","R","U","N","C","A","T","E">>],
     [name |-> "INSERT",   word |-> <<"I","N","S","E","R","T">>],
     [name |-> "UPDATE",   word |-> <<"U","P","D","A","T","E">>],
     [name |-> "ALTER",    word |-> <<"A","L","T","E","R">>],
     [name |-> "CREATE",   word |-> <<"C","R","E","A","T","E">>],
     [name |-> "GRANT",    word |-> <<"G","R","A","N","T">>],
     [name |-> "REVOKE",   word |-> <<"R","E","V","O","K","E">>],
     [name |-> "EXECUTE",  word |-> <<"E","X","E","C","U","T","E">>],
     [name |-> "EXEC",     word |-> <<"E","X","E","C">>],
     [name |-> "CALL",     word |-> <<"C","A","L","L">>],
     [name |-> "REPLACE",  word |-> <<"R","E","P","L","A","C","E">>] >>

SELECT == <<"S","E","L","E","C","T">>
LIMIT == <<"L","I","M","I","T">>
LineMarker == <<"-","-">>
BlockOpen == <<"/","*">>
BlockClose == <<"*","/">>

\* index of the first "\n" at or after i, Len(s)+1 when there is none
EndOfLine(s, i) ==
  IF \E j \in i..Len(s) : s[j] = "\n"
    THEN CHOOSE j \in i..Len(s) : s[j] = "\n" /\ \A k \in i..(j - 1) : s[k] # "\n"
    ELSE Len(s) + 1

\* the least element of a non-empty set of positions
First(S) == CHOOSE p \in S : \A q \in S : p <= q

\* re.sub(r'--[^\n]*', '', sql) from position i on: the text up to the next
\* match is kept, the match is dropped, the scan goes on behind it
RECURSIVE SubLineComments(_, _)
SubLineComments(s, i) ==
  LET starts == {p \in i..Len(s) : MatchAt(s, p, LineMarker)}
  IN  IF starts = {} THEN Slice(s, i, Len(s))
      ELSE Value({Slice(s, i, p - 1) \o SubLineComments(s, EndOfLine(s, p + 2)) :
                    p \in {First(starts)}})

\* start of the first "*/" at or after i, 0 when there is none
FirstBlockClose(s, i) ==
  IF \E j \in i..Len(s) : MatchAt(s, j, BlockClose)
    THEN CHOOSE j \in i..Len(s) :
           /\ MatchAt(s, j, BlockClose)
           /\ \A k \in i..(j - 1) : ~MatchAt(s, k, BlockClose)
    ELSE 0

\* re.sub(r'/\*.*?\*/', '', sql, flags=re.DOTALL) from position i on
RECURSIVE SubBlockComments(_, _)
SubBlockComments(s, i) ==
  LET starts == {p \in i..Len(s) :
                   MatchAt(s, p, BlockOpen) /\ FirstBlockClose(s, p + 2) # 0}
  IN  IF starts = {} THEN Slice(s, i, Len(s))
      ELSE Value({Slice(s, i, p - 1)
                    \o SubBlockComments(s, FirstBlockClose(s, p + 2) + 2) :
                    p \in {First(starts)}})

\* SQLValidator._remove_comments: the two substitutions in turn, sql rebound
\* to the value of the first before the second runs
_remove_comments(sql) ==
  Value({SubBlockComments(without_line, 1) :
           without_line \in {SubLineComments(sql, 1)}})

\* variant: the keyword is looked for without the word boundaries
SearchWord_Substring(s, w) == Contains(s, w)

\* re.search(r'\b' + keyword + r'\b', s)
SearchWord(s, w) ==
  \E i \in 1..Len(s) :
    /\ MatchAt(s, i, w)
    /\ (i = 1 \/ ~IsWordChar(s[i - 1]))
    /\ (i + Len(w) > Len(s) \/ ~IsWordChar(s[i + Len(w)]))

\* re.search(r';\s*--', s)
SearchSemicolonThenComment(s) ==
  \E i \in 1..Len(s) :
    /\ s[i] = ";"
    /\ \E j \in (i + 1)..Len(s) :
         /\ MatchAt(s, j, LineMarker)
         /\ \A k \in (i + 1)..(j - 1) : IsSpace(s[k])

\* re.search(r'--\s*[^\n]*;\s*', s)
SearchSemicolonInLineComment(s) ==
  \E i \in 1..Len(s) :
    /\ MatchAt(s, i, LineMarker)
    /\ \E m \in (i + 2)..Len(s) :
         /\ \A k \in (i + 2)..(m - 1) : IsSpace(s[k])
         /\ \E j \in m..Len(s) :
              /\ s[j] = ";"
              /\ \A k \in m..(j - 1) : s[k] # "\n"

\* re.search(r'\/\*.*\*\/.*;\s*', s), '.' not matching a newline
SearchSemicolonAfterBlockComment(s) ==
  \E i \in 1..Len(s) :
    /\ MatchAt(s, i, BlockOpen)
    /\ \E j \in (i + 2)..Len(s) :
         /\ MatchAt(s, j, BlockClose)
         /\ \A k \in (i + 2)..(j - 1) : s[k] # "\n"
         /\ \E m \in (j + 2)..Len(s) :
              /\ s[m] = ";"
              /\ \A k \in (j + 2)..(m - 1) : s[k] # "\n"

injection_patterns(s) ==
  \/ SearchSemicolonThenComment(s)
  \/ SearchSemicolonInLineComment(s)
  \/ SearchSemicolonAfterBlockComment(s)

\* variant: the denylist is not consulted
KeywordHits_Skipped(s) == {}

\* the DANGEROUS_KEYWORDS entries found in s as whole words
KeywordHits(s) ==
  {k \in 1..Len(DANGEROUS_KEYWORDS) : SearchWord(s, DANGEROUS_KEYWORDS[k].word)}

\* the first entry of DANGEROUS_KEYWORDS the scan loop stops at
FirstKeywordHit(s) ==
  CHOOSE k \in KeywordHits(s) : \A m \in KeywordHits(s) : k <= m

\* variant: SELECT is looked for anywhere in the text
StartsWithSelect_Anywhere(sql_upper) == Contains(sql_upper, SELECT)

\* the line 59 test: sql_upper.strip().startswith('SELECT')
StartsWithSelect(sql_upper) ==
  \E stripped \in {strip(sql_upper)} : startswith(stripped, SELECT)

\* the checks of is_safe_query on sql, its comment-free text and the upper
\* case of that text (sql_validator.py:42-79)
SafetyChecks(sql, sql_clean, sql_upper) ==
  IF Len(sql) = 0 \/ Len(strip(sql)) = 0
    THEN [safe |-> FALSE, message |-> <<"Empty query">>]
  ELSE IF KeywordHits(sql_upper) # {}
    THEN [safe |-> FALSE,
          message |-> <<"Dangerous keyword detected: ",
                        DANGEROUS_KEYWORDS[FirstKeywordHit(sql_upper)].name>>]
  ELSE IF ~StartsWithSelect(sql_upper)
    THEN [safe |-> FALSE, message |-> <<"Query must start with SELECT">>]
  ELSE IF count(sql_clean, ";") > 1
    THEN [safe |-> FALSE, message |-> <<"Multiple statements not allowed">>]
  ELSE IF injection_patterns(sql_clean)
    THEN [safe |-> FALSE, message |-> <<"Potential SQL injection pattern detected">>]
  ELSE [safe |-> TRUE, message |-> <<"Query is safe">>]

\* SQLValidator.is_safe_query
is_safe_query(sql) ==
  Value({ Value({SafetyChecks(sql, sql_clean, sql_upper) :
                   sql_upper \in {upper(sql_clean)}}) :
          sql_clean \in {_remove_comments(sql)} })

\* variant: the trailing terminator is not removed before the clause is appended
add_limit_if_missing_KeepsTerminator(sql, default_limit) ==
  IF \E sql_upper \in {upper(sql)} : Contains(sql_upper, LIMIT)
    THEN sql
    ELSE strip(sql) \o <<" ">> \o LIMIT \o <<" ">> \o IntToStr(default_limit) \o <<";">>

\* variant: the clause is appended without looking for an existing one
add_limit_if_missing_Always(sql, default_limit) ==
  Value({strip(unterminated) : unterminated \in {rstripSemicolons(sql)}})
    \o <<" ">> \o LIMIT \o <<" ">> \o IntToStr(default_limit) \o <<";">>

\* SQLValidator.add_limit_if_missing
add_limit_if_missing(sql, default_limit) ==
  IF \E sql_upper \in {upper(sql)} : Contains(sql_upper, LIMIT)
    THEN sql
    ELSE Value({strip(unterminated) : unterminated \in {rstripSemicolons(sql)}})
           \o <<" ">> \o LIMIT \o <<" ">> \o IntToStr(default_limit) \o <<";">>

\* length of the whitespace run that starts at position i
SpaceRun(s, i) ==
  IF \E j \in i..Len(s) : ~IsSpace(s[j])
    THEN (CHOOSE j \in i..Len(s) :
            ~IsSpace(s[j]) /\ \A k \in i..(j - 1) : IsSpace(s[k])) - i
    ELSE Len(s) + 1 - i

\* re.sub(marker + r'\s*', '', s) from position i on
RECURSIVE SubFence(_, _, _)
SubFence(s, i, marker) ==
  LET starts == {p \in i..Len(s) : MatchAt(s, p, marker)}
  IN  IF starts = {} THEN Slice(s, i, Len(s))
      ELSE Value({Slice(s, i, p - 1)
                    \o SubFence(s, p + Len(marker) + SpaceRun(s, p + Len(marker)),
                                marker) :
                    p \in {First(starts)}})

\* ' '.join(s.split()) on an already stripped s, from position i on: every
\* run of blanks becomes one space
RECURSIVE CollapseSpaces(_, _)
CollapseSpaces(s, i) ==
  LET blanks == {p \in i..Len(s) : IsSpace(s[p])}
  IN  IF blanks = {} THEN Slice(s, i, Len(s))
      ELSE Value({Slice(s, i, p - 1) \o <<" ">>
                    \o CollapseSpaces(s, p + SpaceRun(s, p)) :
                    p \in {First(blanks)}})

\* the grave accent character (U+0060), named because a TLA+ string cannot hold it
GraveAccent == "<grave>"
FenceSql == <<GraveAccent, GraveAccent, GraveAccent, "s", "q", "l">>
Fence == <<GraveAccent, GraveAccent, GraveAccent>>

\* the last statement of clean_sql: a semicolon is appended unless one ends s
EnsureTerminator(s) == IF endswith(s, <<";">>) THEN s ELSE s \o <<";">>

\* variant: the text is handed on as the generator returned it
clean_sql_Raw(sql) == sql

\* SQLValidator.clean_sql: four rebindings of sql in turn
clean_sql(sql) ==
  Value({EnsureTerminator(joined) :
    joined \in {CollapseSpaces(trimmed, 1) :
      trimmed \in {strip(unfenced) :
        unfenced \in {SubFence(no_sql_fence, 1, Fence) :
          no_sql_fence \in {SubFence(sql, 1, FenceSql)}}}}})

(***************************************************************************)
(* The environment of the agent: configuration, generator, database.       *)
(***************************************************************************)
\* MAX_RETRIES default of NLToSQLAgent.__init__
DefaultMaxRetries == 3
\* DEFAULT_LIMIT default of NLToSQLAgent.__init__
DefaultLimit == 100
\* DEFAULT_LIMIT settings explored
DefaultLimits == {0, DefaultLimit}

Questions == {"How many customers do we have?", "Show me all orders"}

\* the count query over customers of the end-to-end example
GenCount ==
  <<"S","E","L","E","C","T"," ","C","O","U","N","T","(","*",")"," ","F","R",
    "O","M"," ","c","u","s","t","o","m","e","r","s">>

\* 'SELECT * FROM orders'
GenOrders ==
  <<"S","E","L","E","C","T"," ","*"," ","F","R","O","M"," ","o","r","d","e",
    "r","s">>

\* 'SELECT * FROM customers; DROP TABLE customers;'
GenSplice ==
  <<"S","E","L","E","C","T"," ","*"," ","F","R","O","M"," ","c","u","s","t",
    "o","m","e","r","s",";"," ","D","R","O","P"," ","T","A","B","L","E"," ",
    "c","u","s","t","o","m","e","r","s",";">>

\* 'SELECT * FROM orders LIMIT 5;' on a line of its own inside a sql code fence
GenFenced ==
  <<GraveAccent,GraveAccent,GraveAccent,"s","q","l","\n","S","E","L","E","C","T"," ","*"," ","F","R",
    "O","M"," ","o","r","d","e","r","s"," ","L","I","M","I","T"," ","5",";",
    "\n",GraveAccent,GraveAccent,GraveAccent>>

\* 'SELECT 1; SELECT 2;'
GenTwo ==
  <<"S","E","L","E","C","T"," ","1",";"," ","S","E","L","E","C","T"," ","2",
    ";">>

\* 'SELECT credit_limit FROM accounts'
GenCreditLimit ==
  <<"S","E","L","E","C","T"," ","c","r","e","d","i","t","_","l","i","m","i",
    "t"," ","F","R","O","M"," ","a","c","c","o","u","n","t","s">>

\* 'SELECT * FROM orders -- all'
GenCommented ==
  <<"S","E","L","E","C","T"," ","*"," ","F","R","O","M"," ","o","r","d","e",
    "r","s"," ","-","-"," ","a","l","l">>

\* texts the language model may answer with
GeneratorTexts ==
  {GenCount, GenOrders, GenSplice, GenFenced, GenTwo, GenCreditLimit, GenCommented}

\* str(e) of the errors the collaborators raise
ApiErrorText == <<"Error code: 529 - overloaded_error">>
ConnectErrorText == <<"connection to server failed: Connection refused">>
SyntaxErrorText == <<"syntax error at or near \"FORM\"">>
TimeoutErrorText == <<"canceling statement due to statement timeout">>
NoResultsErrorText == <<"no results to fetch">>

\* outcome of self.client.messages.create
GenOutcomes ==
  [kind : {"text"}, text : GeneratorTexts, msg : {<<>>}]
    \cup [kind : {"error"}, text : {<<>>}, msg : {ApiErrorText}]

\* what cursor.fetchall() and cursor.description deliver
DbResults ==
  { [results |-> <<>>, description |-> <<"count">>],
    [results |-> << <<42>> >>, description |-> <<"count">>],
    [results |-> << <<1>>, <<2>> >>, description |-> <<"order_id">>],
    [results |-> <<>>, description |-> <<>>] }

\* how the driver answers one execute_sql call: the step that raises, or ok
NoData == [results |-> <<>>, description |-> <<>>]

DbOutcomes ==
  [kind : {"ok"}, msg : {<<>>}, data : DbResults]
    \cup [kind : {"connect_fail"}, msg : {ConnectErrorText}, data : {NoData}]
    \cup [kind : {"cursor_fail"}, msg : {ConnectErrorText}, data : {NoData}]
    \cup [kind : {"set_timeout_fail"}, msg : {TimeoutErrorText}, data : {NoData}]
    \cup [kind : {"statement_fail"}, msg : {SyntaxErrorText, TimeoutErrorText},
          data : {NoData}]
    \cup [kind : {"fetch_fail"}, msg : {NoResultsErrorText}, data : {NoData}]

\* how the database answers load_schema_context's connection and introspection
SchemaOutcomes == {"ok", "connect_fail", "introspect_fail"}

\* the string get_full_schema_context returns
SchemaText == <<"DATABASE SCHEMA">>

\* Python None, as a str slot holds it and as an f-string prints it
None == <<"None">>

(***************************************************************************)
(* Exceptions.                                                             *)
(***************************************************************************)
\* classes derived from Exception, the ones 'except Exception' catches
ExceptionSubclasses ==
  {"APIError", "OperationalError", "ProgrammingError", "NameError",
   "TypeError", "UnboundLocalError"}

\* variant: the clause names the driver's errors only
CaughtByExcept_DriverOnly(exc) == exc.cls \in {"OperationalError", "ProgrammingError"}

\* the 'except Exception as e' clause of query (agent.py:235)
CaughtByExcept(exc) == exc.cls \in ExceptionSubclasses

\* evaluating the dict display {role: "user", content: prompt} (agent.py:94)
NameErrorRole == [cls |-> "NameError", msg |-> <<"name 'role' is not defined">>]

\* cursor.close() in the finally block when cursor was never bound (agent.py:175)
UnboundCursor ==
  [cls |-> "UnboundLocalError",
   msg |-> <<"cannot access local variable 'cursor' where it is not associated with a value">>]

NoException == [cls |-> "none", msg |-> <<>>]

(***************************************************************************)
(* State.                                                                  *)
(***************************************************************************)
VARIABLES
  max_retries,     \* self.max_retries
  default_limit,   \* self.default_limit
  schema_context,  \* self.schema_context, None until loaded
  open_conns,      \* connections opened and not closed
  introspected,    \* the last load_schema_context call opened a connection
  sessions,        \* query() calls started so far
  pc,              \* position of the running query() call
  natural_query,   \* argument of the running query() call
  attempt,         \* loop variable of query
  sql,             \* local sql of query
  error,           \* local error of query
  result,          \* the dict query returned, NoResult while it runs
  returns,         \* number of dicts the running query() call has returned
  log,             \* one record per finished attempt of the running call
  requests,        \* prompts built by the running call, in order
  model_calls,     \* client.messages.create invocations of the running call
  executed,        \* statements passed to execute_sql by the running call
  db_returned,     \* rows and description the driver delivered last
  driver_calls,    \* calls the last execute_sql made on the driver, in order
  generated,       \* response text the model delivered last, None before
  input,           \* argument of the validator function under check
  verdict,         \* its return value, NoVerdict before the call
  reverdict,       \* is_safe_query(limited), NoVerdict before the call
  raw,             \* argument of the normaliser functions under check
  limit,           \* default_limit argument of add_limit_if_missing
  cleaned,         \* clean_sql(raw), Pending before the call
  limited,         \* add_limit_if_missing(raw, limit), Pending before the call
  relimited        \* add_limit_if_missing(limited, limit), Pending before the call

agentVars == <<max_retries, default_limit, schema_context, open_conns,
               introspected, sessions>>
queryVars == <<pc, natural_query, attempt, sql, error, result, returns, log,
               requests, model_calls, executed, db_returned, driver_calls,
               generated>>
gateVars == <<input, verdict, reverdict>>
normVars == <<raw, limit, cleaned, limited, relimited>>
vars == <<agentVars, queryVars, gateVars, normVars>>

NoResult == [kind |-> "none"]
NoVerdict == [safe |-> FALSE, message |-> <<>>]
\* a result slot of the normaliser functions before the call
Pending == <<"pending">>

(***************************************************************************)
(* NLToSQLAgent (agent.py): the calls query makes.                         *)
(***************************************************************************)
\* variant: the cache is not looked at, every call loads the schema
load_schema_context_Uncached(ctx, outcome) ==
  IF outcome = "connect_fail"
    THEN [exc |-> [cls |-> "OperationalError", msg |-> ConnectErrorText],
          schema_context |-> ctx, leaked |-> 0, connected |-> FALSE]
  ELSE IF outcome = "introspect_fail"
    THEN [exc |-> [cls |-> "ProgrammingError", msg |-> SyntaxErrorText],
          schema_context |-> ctx, leaked |-> 1, connected |-> TRUE]
  ELSE [exc |-> NoException, schema_context |-> SchemaText, leaked |-> 0,
        connected |-> TRUE]

\* NLToSQLAgent.load_schema_context on a cache holding ctx
load_schema_context(ctx, outcome) ==
  IF ctx # None
    THEN [exc |-> NoException, schema_context |-> ctx, leaked |-> 0, connected |-> FALSE]
  ELSE IF outcome = "connect_fail"
    THEN [exc |-> [cls |-> "OperationalError", msg |-> ConnectErrorText],
          schema_context |-> ctx, leaked |-> 0, connected |-> FALSE]
  ELSE IF outcome = "introspect_fail"
    THEN [exc |-> [cls |-> "ProgrammingError", msg |-> SyntaxErrorText],
          schema_context |-> ctx, leaked |-> 1, connected |-> TRUE]
  ELSE [exc |-> NoException, schema_context |-> SchemaText, leaked |-> 0,
        connected |-> TRUE]

\* NLToSQLAgent.execute_sql: the exception that leaves it, or the pair it returns
execute_sql(outcome) ==
  IF outcome.kind = "connect_fail"
    THEN [exc |-> UnboundCursor, leaked |-> 0, results |-> <<>>, column_names |-> <<>>]
  ELSE IF outcome.kind = "cursor_fail"
    THEN [exc |-> UnboundCursor, leaked |-> 1, results |-> <<>>, column_names |-> <<>>]
  ELSE IF outcome.kind = "set_timeout_fail"
    THEN [exc |-> [cls |-> "OperationalError", msg |-> outcome.msg],
          leaked |-> 0, results |-> <<>>, column_names |-> <<>>]
  ELSE IF outcome.kind \in {"statement_fail", "fetch_fail"}
    THEN [exc |-> [cls |-> "ProgrammingError", msg |-> outcome.msg],
          leaked |-> 0, results |-> <<>>, column_names |-> <<>>]
  ELSE [exc |-> NoException, leaked |-> 0,
        results |-> outcome.data.results,
        column_names |-> outcome.data.description]

\* QUERY_TIMEOUT default of NLToSQLAgent.__init__, self.query_timeout
query_timeout == 30

\* the statement of agent.py:158
SetTimeoutStatement(timeout) ==
  <<"SET statement_timeout = ">> \o IntToStr(timeout * 1000) \o <<";">>

\* one call made on the driver
DriverCall(op, arg) == [op |-> op, arg |-> arg]

\* the driver call at which an outcome raises, in the order of the try body
RaisesAt(outcome) ==
  CASE outcome.kind = "connect_fail" -> 1
    [] outcome.kind = "cursor_fail" -> 2
    [] outcome.kind = "set_timeout_fail" -> 3
    [] outcome.kind = "statement_fail" -> 4
    [] outcome.kind = "fetch_fail" -> 5
    [] OTHER -> 7

\* variant: the candidate statement is executed before the timeout is set
DriverCalls_StatementFirst(statement, timeout, outcome) ==
  LET body == << DriverCall("connect", <<>>),
                 DriverCall("cursor", <<>>),
                 DriverCall("execute", statement),
                 DriverCall("execute", SetTimeoutStatement(timeout)),
                 DriverCall("fetchall", <<>>),
                 DriverCall("description", <<>>) >>
      made == IF RaisesAt(outcome) < Len(body) THEN RaisesAt(outcome) ELSE Len(body)
  IN  SubSeq(body, 1, made)
        \o IF made >= 3
             THEN << DriverCall("cursor.close", <<>>), DriverCall("conn.close", <<>>) >>
             ELSE <<>>

\* the calls execute_sql makes on the driver (agent.py:154-176): the try body up
\* to and including the call that raises, then the finally block, which makes
\* no call when cursor is unbound
DriverCalls(statement, timeout, outcome) ==
  LET body == << DriverCall("connect", <<>>),
                 DriverCall("cursor", <<>>),
                 DriverCall("execute", SetTimeoutStatement(timeout)),
                 DriverCall("execute", statement),
                 DriverCall("fetchall", <<>>),
                 DriverCall("description", <<>>) >>
      made == IF RaisesAt(outcome) < Len(body) THEN RaisesAt(outcome) ELSE Len(body)
  IN  SubSeq(body, 1, made)
        \o IF made >= 3
             THEN << DriverCall("cursor.close", <<>>), DriverCall("conn.close", <<>>) >>
             ELSE <<>>

\* get_base_prompt(schema) with the question appended (agent.py:117-119)
BasePrompt(schema, question) ==
  [kind |-> "base", schema |-> schema, question |-> question,
   previous_sql |-> None, error_message |-> None]

\* an entry of requests: a prompt and the attempt that built it
Request(k, prompt) == [attempt |-> k, prompt |-> prompt]

\* get_error_recovery_prompt (prompts.py:160)
get_error_recovery_prompt(schema, user_query, previous_sql, error_message) ==
  [kind |-> "recovery", schema |-> schema, question |-> user_query,
   previous_sql |-> previous_sql, error_message |-> error_message]

\* the double exclamation mark emoji (U+203C U+FE0F) that opens the unsafe-SQL
\* message, named because the module is kept in ASCII
DoubleExclamationMark == "<double exclamation mark>"

\* the three failure dicts and the success dict query returns
UnsafeResult(message, s) ==
  [kind |-> "unsafe", success |-> FALSE,
   error |-> <<DoubleExclamationMark, "Unsafe SQL detected: ">> \o message,
   sql |-> s]

\* variant: the failure dict drops the statement
ExhaustedResult_NoSql(n, last_error, s) ==
  [kind |-> "exhausted", success |-> FALSE,
   error |-> <<"Failed after ">> \o IntToStr(n) \o <<" attempts. Last error: ">>
               \o last_error,
   sql |-> None]

ExhaustedResult(n, last_error, s) ==
  [kind |-> "exhausted", success |-> FALSE,
   error |-> <<"Failed after ">> \o IntToStr(n) \o <<" attempts. Last error: ">>
               \o last_error,
   sql |-> s]

UnknownResult(s) ==
  [kind |-> "unknown", success |-> FALSE,
   error |-> <<"Unknown error occurred">>, sql |-> s]

\* variant: row_count is taken from the columns
SuccessResult_CountsColumns(s, rows, cols, k) ==
  [kind |-> "success", success |-> TRUE, sql |-> s, results |-> rows,
   column_names |-> cols, attempt |-> k, row_count |-> Len(cols)]

SuccessResult(s, rows, cols, k) ==
  [kind |-> "success", success |-> TRUE, sql |-> s, results |-> rows,
   column_names |-> cols, attempt |-> k, row_count |-> Len(rows)]

\* the record kept of one attempt: its stage of ending, the statement it
\* produced (None when generation raised) and the failure message
AttemptRecord(k, request_kind, stage, produced, cls, msg) ==
  [index |-> k, request |-> request_kind, stage |-> stage, sql |-> produced,
   cls |-> cls, message |-> msg]

(***************************************************************************)
(* Actions.                                                                *)
(***************************************************************************)
\* variant: the loop counts from zero, as range(self.max_retries + 1) would
FirstAttempt_Zero == 1 - 1

\* first value of range(1, self.max_retries + 1) (agent.py:198)
FirstAttempt == 1

\* k in range(1, n + 1): the loop of query has an iteration for k
InRange(k, n) == k >= FirstAttempt /\ k <= n

\* variant: the test is made against one more than the budget
IsLastAttempt_OffByOne(k, n) == k = n + 1

\* the test 'attempt == self.max_retries' of the except clause (agent.py:239)
IsLastAttempt(k, n) == k = n

\* the test 'attempt == 1' choosing generate_sql over retry_with_error (agent.py:200)
IsFirstAttempt(k) == k = 1

\* the request the current attempt makes of the generator
RequestKind == IF IsFirstAttempt(attempt) THEN "base" ELSE "recovery"

\* the except clause of query (agent.py:235-244), for an exception raised in
\* the try body at the given stage of the current attempt, followed by the
\* step of the for loop and the fall-through return (agent.py:247-251)
Except(exc, stage, produced) ==
  /\ log' = Append(log, AttemptRecord(attempt, RequestKind, stage, produced,
                                      exc.cls, exc.msg))
  /\ IF ~CaughtByExcept(exc)
       THEN /\ pc' = "escaped"
            /\ UNCHANGED <<error, attempt, result, returns>>
     ELSE IF IsLastAttempt(attempt, max_retries)
       THEN /\ error' = exc.msg
            /\ result' = ExhaustedResult(max_retries, exc.msg, sql)
            /\ returns' = returns + 1
            /\ pc' = "done"
            /\ UNCHANGED attempt
     ELSE IF InRange(attempt + 1, max_retries)
       THEN /\ error' = exc.msg
            /\ attempt' = attempt + 1
            /\ pc' = "generate"
            /\ UNCHANGED <<result, returns>>
     ELSE /\ error' = exc.msg
          /\ result' = UnknownResult(sql)
          /\ returns' = returns + 1
          /\ pc' = "done"
          /\ UNCHANGED attempt

\* entry of query (agent.py:179-198): locals reset, first loop iteration or
\* fall-through when range(1, max_retries + 1) is empty
StartQuery ==
  /\ pc \in {"idle", "done"}
  /\ sessions < MaxSessions
  /\ sessions' = sessions + 1
  /\ \E q \in Questions : natural_query' = q
  /\ sql' = None
  /\ error' = None
  /\ attempt' = FirstAttempt
  /\ log' = <<>>
  /\ requests' = <<>>
  /\ model_calls' = 0
  /\ executed' = <<>>
  /\ db_returned' = NoData
  /\ driver_calls' = <<>>
  /\ generated' = None
  /\ IF InRange(FirstAttempt, max_retries)
       THEN /\ pc' = "generate"
            /\ result' = NoResult
            /\ returns' = 0
       ELSE /\ pc' = "done"
            /\ result' = UnknownResult(None)
            /\ returns' = 1
  /\ UNCHANGED <<max_retries, default_limit, schema_context, open_conns,
                 introspected, gateVars, normVars>>

\* attempt 1: generate_sql (agent.py:106-142) called at agent.py:201
GenerateSql ==
  /\ pc = "generate"
  /\ IsFirstAttempt(attempt)
  /\ \E so \in SchemaOutcomes, g \in GenOutcomes :
       LET ls == load_schema_context(schema_context, so)
       IN  /\ schema_context' = ls.schema_context
           /\ open_conns' = open_conns + ls.leaked
           /\ introspected' = ls.connected
           /\ IF ls.exc # NoException
                THEN /\ Except(ls.exc, "generate", None)
                     /\ UNCHANGED <<sql, requests, model_calls, generated>>
              ELSE /\ requests' = Append(requests,
                          Request(attempt, BasePrompt(ls.schema_context,
                                                      natural_query)))
                   /\ model_calls' = model_calls + 1
                   /\ IF g.kind = "error"
                        THEN /\ Except([cls |-> "APIError", msg |-> g.msg],
                                       "generate", None)
                             /\ UNCHANGED <<sql, generated>>
                        ELSE /\ generated' = g.text
                             /\ sql' = Value({clean_sql(text) : text \in {strip(g.text)}})
                             /\ pc' = "gate"
                             /\ UNCHANGED <<error, attempt, result, returns, log>>
  /\ UNCHANGED <<max_retries, default_limit, sessions, natural_query, executed,
                 db_returned, driver_calls, gateVars, normVars>>

\* attempts >= 2: retry_with_error (agent.py:70-104) called at agent.py:203.
\* The prompt is built from the locals sql and error of query; building the
\* messages argument then raises NameError, before the client is called.
RetryWithError ==
  /\ pc = "generate"
  /\ ~IsFirstAttempt(attempt)
  /\ \E so \in SchemaOutcomes :
       LET ls == load_schema_context(schema_context, so)
       IN  /\ schema_context' = ls.schema_context
           /\ open_conns' = open_conns + ls.leaked
           /\ introspected' = ls.connected
           /\ IF ls.exc # NoException
                THEN /\ Except(ls.exc, "generate", None)
                     /\ UNCHANGED requests
                ELSE /\ requests' = Append(requests,
                          Request(attempt,
                                  get_error_recovery_prompt(ls.schema_context,
                                      natural_query, sql, error)))
                     /\ Except(NameErrorRole, "generate", None)
  /\ UNCHANGED <<max_retries, default_limit, sessions, natural_query, sql,
                 model_calls, executed, db_returned, driver_calls, generated,
                 gateVars,
                 normVars>>

\* variant: the verdict of the gate is not looked at
IsRejected_Ignored(v) == FALSE

\* variant: the test is made the wrong way round
IsRejected_Inverted(v) == v.safe

\* the test 'if not is_safe' on the verdict of the gate (agent.py:210)
IsRejected(v) == ~v.safe

\* is_safe_query and add_limit_if_missing on the generated text (agent.py:209-217)
Gate ==
  /\ pc = "gate"
  /\ LET v == is_safe_query(sql)
     IN  IF IsRejected(v)
           THEN /\ result' = UnsafeResult(v.message, sql)
                /\ returns' = returns + 1
                /\ pc' = "done"
                /\ log' = Append(log, AttemptRecord(attempt, RequestKind,
                                   "gate", sql, "none", v.message))
                /\ UNCHANGED sql
           ELSE /\ sql' = add_limit_if_missing(sql, default_limit)
                /\ pc' = "execute"
                /\ UNCHANGED <<result, returns, log>>
  /\ UNCHANGED <<agentVars, natural_query, attempt, error, requests,
                 model_calls, executed, db_returned, driver_calls, generated,
                 gateVars,
                 normVars>>

\* execute_sql and the success return (agent.py:221-234)
Execute ==
  /\ pc = "execute"
  /\ \E o \in DbOutcomes :
       LET r == execute_sql(o)
       IN  /\ executed' = Append(executed, sql)
           /\ db_returned' = o.data
           /\ driver_calls' = DriverCalls(sql, query_timeout, o)
           /\ open_conns' = open_conns + r.leaked
           /\ IF r.exc # NoException
                THEN Except(r.exc, "execute", sql)
                ELSE /\ result' = SuccessResult(sql, r.results, r.column_names,
                                                attempt)
                     /\ returns' = returns + 1
                     /\ pc' = "done"
                     /\ log' = Append(log, AttemptRecord(attempt, RequestKind,
                                        "success", sql, "none", <<>>))
                     /\ UNCHANGED <<error, attempt>>
  /\ UNCHANGED <<max_retries, default_limit, schema_context, introspected,
                 sessions, natural_query, sql, requests, model_calls, generated,
                 gateVars, normVars>>

(***************************************************************************)
(* Specification of the agent.                                             *)
(***************************************************************************)
Init ==
  /\ max_retries \in 0..MaxRetriesBound
  /\ default_limit \in DefaultLimits
  /\ schema_context = None
  /\ open_conns = 0
  /\ introspected = FALSE
  /\ sessions = 0
  /\ pc = "idle"
  /\ natural_query = ""
  /\ attempt = FirstAttempt
  /\ sql = None
  /\ error = None
  /\ result = NoResult
  /\ returns = 0
  /\ log = <<>>
  /\ requests = <<>>
  /\ model_calls = 0
  /\ executed = <<>>
  /\ db_returned = NoData
  /\ driver_calls = <<>>
  /\ generated = None
  /\ input = <<>>
  /\ verdict = NoVerdict
  /\ reverdict = NoVerdict
  /\ raw = <<>>
  /\ limit = DefaultLimit
  /\ cleaned = Pending
  /\ limited = Pending
  /\ relimited = Pending

Next ==
  \/ StartQuery
  \/ GenerateSql
  \/ RetryWithError
  \/ Gate
  \/ Execute

Spec == Init /\ [][Next]_vars

\* a query() call that has started runs on: the loop is synchronous and every
\* collaborator call returns or raises
FairSpec ==
  /\ Spec
  /\ WF_vars(GenerateSql \/ RetryWithError \/ Gate \/ Execute)

(***************************************************************************)
(* Specification of the validator functions: the argument is drawn from    *)
(* the texts built of at most MaxFrags lexical fragments, and the function *)
(* is applied to it.                                                       *)
(***************************************************************************)
\* a block comment whose body is the line-comment marker
BlockWithMarker == <<"/","*","-","-","*","/">>

\* the lexical fragments gate inputs are built of: SELECT, the keyword DROP in
\* mixed case, a suffix that turns it into an identifier, blanks, the
\* terminator and the comment markers
GateFragments ==
  { SELECT, <<"D","r","O","p">>, <<"P","E","D">>, <<" ">>, <<";">>, <<"\n">>,
    LineMarker, BlockOpen, BlockClose, BlockWithMarker }

\* the concatenations of at most n fragments
RECURSIVE FragStrings(_)
FragStrings(n) ==
  IF n = 0 THEN {<<>>}
  ELSE LET shorter == FragStrings(n - 1)
       IN  shorter \cup {p \o f : p \in shorter, f \in GateFragments}

GateInputs == FragStrings(MaxFrags)

\* one call SQLValidator.is_safe_query(input)
Classify ==
  /\ verdict = NoVerdict
  /\ verdict' = is_safe_query(input)
  /\ UNCHANGED <<agentVars, queryVars, input, reverdict, normVars>>

GateInit ==
  /\ max_retries = DefaultMaxRetries
  /\ default_limit = DefaultLimit
  /\ schema_context = None
  /\ open_conns = 0
  /\ introspected = FALSE
  /\ sessions = 0
  /\ pc = "idle"
  /\ natural_query = ""
  /\ attempt = FirstAttempt
  /\ sql = None
  /\ error = None
  /\ result = NoResult
  /\ returns = 0
  /\ log = <<>>
  /\ requests = <<>>
  /\ model_calls = 0
  /\ executed = <<>>
  /\ db_returned = NoData
  /\ driver_calls = <<>>
  /\ generated = None
  /\ input \in GateInputs
  /\ verdict = NoVerdict
  /\ reverdict = NoVerdict
  /\ raw = <<>>
  /\ limit = DefaultLimit
  /\ cleaned = Pending
  /\ limited = Pending
  /\ relimited = Pending

\* add_limit_if_missing on a text is_safe_query classified Safe, and
\* is_safe_query on what it returns
EnforceLimit ==
  /\ verdict.safe
  /\ limited = Pending
  /\ \E n \in DefaultLimits :
       /\ raw' = input
       /\ limit' = n
       /\ limited' = add_limit_if_missing(input, n)
       /\ reverdict' = Value({is_safe_query(t) : t \in {add_limit_if_missing(input, n)}})
  /\ UNCHANGED <<agentVars, queryVars, input, verdict, cleaned, relimited>>

GateNext ==
  \/ Classify
  \/ EnforceLimit

GateSpec == GateInit /\ [][GateNext]_vars

(***************************************************************************)
(* Specification of the normaliser functions: the argument is drawn from   *)
(* the texts built of at most MaxNormFrags fragments; clean_sql and        *)
(* add_limit_if_missing are applied to it, and add_limit_if_missing is     *)
(* applied once more to its own result.                                    *)
(***************************************************************************)
\* 'LIMIT 5'
LimitFive == LIMIT \o <<" ", "5">>

\* 'c_limit', an identifier
LimitIdentifier == <<"c","_","l","i","m","i","t">>

\* the lexical fragments normaliser inputs are built of
NormFragments ==
  { SELECT, LimitFive, LimitIdentifier, <<" ">>, <<";">>, <<"\n">>, FenceSql, Fence }

\* the concatenations of at most n fragments
RECURSIVE NormStrings(_)
NormStrings(n) ==
  IF n = 0 THEN {<<>>}
  ELSE LET shorter == NormStrings(n - 1)
       IN  shorter \cup {p \o f : p \in shorter, f \in NormFragments}

NormInputs == NormStrings(MaxNormFrags)

\* one call SQLValidator.clean_sql(raw)
Clean ==
  /\ cleaned = Pending
  /\ cleaned' = clean_sql(raw)
  /\ UNCHANGED <<agentVars, queryVars, gateVars, raw, limit, limited, relimited>>

\* one call SQLValidator.add_limit_if_missing(raw, limit)
AddLimit ==
  /\ cleaned # Pending
  /\ limited = Pending
  /\ limited' = add_limit_if_missing(raw, limit)
  /\ UNCHANGED <<agentVars, queryVars, gateVars, raw, limit, cleaned, relimited>>

\* one call SQLValidator.add_limit_if_missing on the result of the first
AddLimitAgain ==
  /\ limited # Pending
  /\ relimited = Pending
  /\ relimited' = add_limit_if_missing(limited, limit)
  /\ UNCHANGED <<agentVars, queryVars, gateVars, raw, limit, cleaned, limited>>

NormInit ==
  /\ max_retries = DefaultMaxRetries
  /\ default_limit = DefaultLimit
  /\ schema_context = None
  /\ open_conns = 0
  /\ introspected = FALSE
  /\ sessions = 0
  /\ pc = "idle"
  /\ natural_query = ""
  /\ attempt = FirstAttempt
  /\ sql = None
  /\ error = None
  /\ result = NoResult
  /\ returns = 0
  /\ log = <<>>
  /\ requests = <<>>
  /\ model_calls = 0
  /\ executed = <<>>
  /\ db_returned = NoData
  /\ driver_calls = <<>>
  /\ generated = None
  /\ input = <<>>
  /\ verdict = NoVerdict
  /\ reverdict = NoVerdict
  /\ raw \in NormInputs
  /\ limit \in DefaultLimits
  /\ cleaned = Pending
  /\ limited = Pending
  /\ relimited = Pending

NormNext ==
  \/ Clean
  \/ AddLimit
  \/ AddLimitAgain

NormSpec == NormInit /\ [][NormNext]_vars

(***************************************************************************)
(* Properties of a Session (one query() call).                             *)
(***************************************************************************)
Running == pc \in {"generate", "gate", "execute"}

\* the Success shape of the dict query returns
IsSuccess(r) ==
  /\ {"success", "sql", "results", "column_names", "attempt", "row_count"}
       \subseteq DOMAIN r
  /\ r.success

\* the Failure shape of the dict query returns
IsFailure(r) ==
  /\ {"success", "error", "sql"} \subseteq DOMAIN r
  /\ ~r.success

\* the text of the unsafe-SQL failure for a verdict message m
UnsafeText(m) == <<DoubleExclamationMark, "Unsafe SQL detected: ">> \o m

\* the text of the AttemptsExhausted failure for n attempts and a last message
ExhaustedText(n, m) ==
  <<"Failed after ">> \o IntToStr(n) \o <<" attempts. Last error: ">> \o m

\* C1: one call of query() produces exactly one result, which is a Success or
\* a Failure and never both or neither, whatever the generator and the
\* database do, and no exception leaves query().
C1_ExactlyOneResult ==
  /\ pc # "escaped"
  /\ returns <= 1
  /\ Running => (returns = 0 /\ result = NoResult)
  /\ pc = "done" =>
       /\ returns = 1
       /\ IsSuccess(result) \/ IsFailure(result)
       /\ ~(IsSuccess(result) /\ IsFailure(result))

\* C1 case: a session whose attempts raised (the NameError of the retry among
\* them) has returned its one Failure
C1_Witness ==
  /\ pc = "done"
  /\ returns = 1
  /\ IsFailure(result)
  /\ \E i \in 1..Len(log) : log[i].cls = "NameError"

\* C2: when the gate classifies the SQL of an attempt Unsafe, the Session ends
\* in that step with the unsafe-SQL Failure: no Executor call, no further
\* generation request, no further attempt.
C2_UnsafeIsTerminal ==
  [][ (pc = "gate" /\ ~is_safe_query(sql).safe) =>
        /\ pc' = "done"
        /\ IsFailure(result')
        /\ result'.error = UnsafeText(is_safe_query(sql).message)
        /\ result'.sql = sql
        /\ returns' = 1
        /\ executed' = executed
        /\ requests' = requests
        /\ model_calls' = model_calls
        /\ attempt' = attempt ]_vars

\* C2 case: a session ended by an Unsafe verdict, with attempts left
C2_Witness ==
  /\ pc = "done"
  /\ result.kind = "unsafe"
  /\ attempt < max_retries
  /\ executed = <<>>

\* every collaborator call of the session did what the scenario of C3 asks:
\* no schema load and no model call failed, no statement was turned down by
\* the gate and none executed without error
ExecutorFailedEveryTime ==
  /\ pc = "done"
  /\ max_retries >= 1
  /\ result.kind \notin {"success", "unsafe"}
  /\ \A i \in 1..Len(log) :
       /\ log[i].cls # "APIError"
       /\ log[i].stage = "generate" =>
            log[i].cls \notin {"OperationalError", "ProgrammingError"}

\* C3: with max_attempts = N, a Session in which the Executor fails every
\* statement (and nothing else goes wrong) has reached the Executor in each of
\* its N attempts and ends in the AttemptsExhausted Failure carrying the
\* message of the N-th execution failure.
C3_ExhaustedCarriesNthMessage ==
  ExecutorFailedEveryTime =>
     /\ Len(executed) = max_retries
     /\ \A i \in 1..Len(log) : log[i].stage = "execute"
     /\ IsFailure(result)
     /\ result.error = ExhaustedText(max_retries, log[max_retries].message)

\* the budget part of C4
C4_Budget ==
  /\ Running => (attempt = Len(log) + 1 /\ attempt >= 1 /\ attempt <= max_retries)
  /\ \A i \in 1..Len(log) : log[i].index = i
  /\ Len(log) <= max_retries
  /\ Len(requests) <= max_retries
  /\ model_calls <= max_retries
  /\ Len(executed) <= max_retries
  /\ pc = "done" =>
       \/ result.kind \in {"success", "unsafe"}
       \/ Len(log) = max_retries

\* C4: every Session terminates; each failure uses one attempt, the attempt
\* index starts at 1 and grows by 1 per failed attempt, and a Session makes at
\* most max_attempts generation requests and Executor invocations.
C4_BoundedAndTerminates ==
  /\ []C4_Budget
  /\ Running ~> (pc = "done")

\* C4 case: a budget of two or more attempts was used up
C4_Witness ==
  /\ pc = "done"
  /\ max_retries >= 2
  /\ Len(log) = max_retries
  /\ result.kind = "exhausted"

\* C5: attempt 1 builds the plain request; every attempt k >= 2 builds the
\* error-recovery request with the question, and with the SQL and the failure
\* message of attempt k-1 (no SQL when attempt k-1 produced none).
C5_RecoveryCarriesPreviousAttempt ==
  \A j \in 1..Len(requests) :
    LET r == requests[j]
    IN  /\ r.attempt = 1 => r.prompt.kind = "base"
        /\ (r.attempt >= 2 /\ r.attempt - 1 <= Len(log)) =>
             /\ r.prompt.kind = "recovery"
             /\ r.prompt.question = natural_query
             /\ r.prompt.previous_sql = log[r.attempt - 1].sql
             /\ r.prompt.error_message = log[r.attempt - 1].message

\* the last statement the attempts of the log held, None when there was none
LastSqlAttempted ==
  IF \E i \in 1..Len(log) : log[i].sql # None
    THEN log[CHOOSE i \in 1..Len(log) :
               /\ log[i].sql # None
               /\ \A k \in (i + 1)..Len(log) : log[k].sql = None].sql
    ELSE None

\* C6: an AttemptsExhausted Failure carries the message of the last failure
\* and the SQL of the last attempt if that attempt produced one (the last SQL
\* attempted in the Session otherwise), for every mix of failures.
C6_ExhaustedCarriesLast ==
  (pc = "done" /\ result.kind = "exhausted") =>
     /\ Len(log) = max_retries
     /\ result.error = ExhaustedText(max_retries, log[Len(log)].message)
     /\ log[Len(log)].sql # None => result.sql = log[Len(log)].sql
     /\ result.sql = LastSqlAttempted

\* C6 case: the last attempt failed in generation after an earlier one failed
\* in execution
C6_Witness ==
  /\ pc = "done"
  /\ result.kind = "exhausted"
  /\ Len(log) >= 2
  /\ log[1].stage = "execute"
  /\ log[Len(log)].stage = "generate"
  /\ result.sql # None

\* C7: when the Executor succeeds in attempt k the Session ends in Success
\* with attempt_index k, the rows and columns the Executor returned, row_count
\* their number and sql the statement executed; one row (42,) gives
\* row_count = 1 and rows = [(42,)].
C7_SuccessRecordsExecution ==
  (pc = "done" /\ result.kind = "success") =>
     /\ IsSuccess(result)
     /\ result.attempt = attempt
     /\ result.attempt = Len(log)
     /\ result.results = db_returned.results
     /\ result.column_names = db_returned.description
     /\ result.row_count = Len(db_returned.results)
     /\ result.sql = executed[Len(executed)]
     /\ db_returned.results = << <<42>> >> =>
          (result.row_count = 1 /\ result.results = << <<42>> >>)

\* C7 case: the count query returned the single row (42,)
C7_Witness ==
  /\ pc = "done"
  /\ result.kind = "success"
  /\ natural_query = "How many customers do we have?"
  /\ db_returned.results = << <<42>> >>
  /\ result.row_count = 1

(***************************************************************************)
(* Properties of the safety gate.  What is a comment is fixed here by the  *)
(* lexical rule, read left to right: "--" opens a comment that runs to the *)
(* end of the line, a block comment runs from its opening marker to the    *)
(* first closing marker after it, and a marker inside a comment opens      *)
(* nothing.                                                                *)
(***************************************************************************)
\* positions of s, from i on, that lie inside a comment
RECURSIVE CommentPositions(_, _)
CommentPositions(s, i) ==
  IF i > Len(s) THEN {}
  ELSE IF MatchAt(s, i, LineMarker)
    THEN (i..(EndOfLine(s, i + 2) - 1)) \cup CommentPositions(s, EndOfLine(s, i + 2))
  ELSE IF MatchAt(s, i, BlockOpen)
    THEN IF FirstBlockClose(s, i + 2) # 0
           THEN (i..(FirstBlockClose(s, i + 2) + 1))
                  \cup CommentPositions(s, FirstBlockClose(s, i + 2) + 2)
           ELSE i..Len(s)
  ELSE CommentPositions(s, i + 1)

\* s holds a denylisted keyword, in any letter case, as a whole word that
\* lies outside every comment
KeywordOutsideComment(s) ==
  \E commented \in {CommentPositions(s, 1)} :
    \E i \in 1..Len(s) :
      /\ (i = 1 \/ ~IsWordChar(s[i - 1]))
      /\ \E k \in 1..Len(DANGEROUS_KEYWORDS) :
           LET w == DANGEROUS_KEYWORDS[k].word
           IN  /\ i + Len(w) - 1 <= Len(s)
               /\ \A j \in 1..Len(w) : UpperChar(s[i + j - 1]) = w[j]
               /\ (i + Len(w) > Len(s) \/ ~IsWordChar(s[i + Len(w)]))
               /\ (i..(i + Len(w) - 1)) \cap commented = {}

\* number of semicolons of s outside every comment
SemicolonsOutsideComments(s) ==
  Cardinality({i \in 1..Len(s) : s[i] = ";" /\ i \notin CommentPositions(s, 1)})

\* t begins with SELECT, letter case ignored
BeginsWithSelect(t) ==
  /\ Len(t) >= Len(SELECT)
  /\ \A k \in 1..Len(SELECT) : UpperChar(t[k]) = SELECT[k]

Classified == verdict # NoVerdict

\* C8: a string holding a denylisted keyword as a whole word outside a
\* comment, in any letter case, is classified Unsafe.
C8_KeywordOutsideCommentUnsafe ==
  (Classified /\ KeywordOutsideComment(input)) => ~verdict.safe

\* C9: a string with two or more semicolons outside comments is classified
\* Unsafe.
C9_TwoSemicolonsUnsafe ==
  (Classified /\ SemicolonsOutsideComments(input) >= 2) => ~verdict.safe

SpliceAnswered == pc = "done" /\ generated = GenSplice

\* C11 as the spec words it: the spliced text is turned down with the reason
\* "multiple statements not allowed" and the Session ends without execution.
C11_SpliceMultipleStatements ==
  SpliceAnswered =>
     /\ result.kind = "unsafe"
     /\ result.error = UnsafeText(<<"Multiple statements not allowed">>)
     /\ executed = <<>>

\* C11: the spliced text is turned down by the keyword scan, which runs before
\* the semicolon count: the reason is "Dangerous keyword detected: DROP", and
\* the Session ends without execution.
C11_SpliceDangerousKeyword ==
  SpliceAnswered =>
     /\ result.kind = "unsafe"
     /\ IsFailure(result)
     /\ result.error = UnsafeText(<<"Dangerous keyword detected: ", "DROP">>)
     /\ result.sql = GenSplice
     /\ executed = <<>>
     /\ Len(log) = 1

\* C11 case: a session that was answered with the spliced text has ended
C11_Witness ==
  /\ SpliceAnswered
  /\ result.kind = "unsafe"
  /\ count(result.sql, ";") = 2

\* input passes the checks that come before the injection patterns: it is not
\* blank, its comment-free text holds no denylisted keyword, begins with
\* SELECT and has at most one semicolon
PassesEarlierChecks(s) ==
  /\ Len(strip(s)) > 0
  /\ KeywordHits(upper(_remove_comments(s))) = {}
  /\ StartsWithSelect(upper(_remove_comments(s)))
  /\ count(_remove_comments(s), ";") <= 1

\* s holds a block comment with a semicolon inside it
BlockCommentHoldsSemicolon(s) ==
  \E i \in 1..Len(s) :
    /\ MatchAt(s, i, BlockOpen)
    /\ FirstBlockClose(s, i + 2) # 0
    /\ \E k \in (i + 2)..(FirstBlockClose(s, i + 2) - 1) : s[k] = ";"

\* the three shapes of C12 in the original, comment-retained text: a
\* semicolon followed by a line comment, a line comment that holds a
\* semicolon, a block comment that holds a semicolon
InjectionShape(s) ==
  \/ SearchSemicolonThenComment(s)
  \/ SearchSemicolonInLineComment(s)
  \/ BlockCommentHoldsSemicolon(s)

\* C12: the injection-pattern checks look at the original text: a string that
\* passes the earlier checks and holds one of the three shapes is classified
\* Unsafe with the injection-pattern reason.
C12_InjectionOnOriginalText ==
  (Classified /\ PassesEarlierChecks(input) /\ InjectionShape(input)) =>
     verdict = [safe |-> FALSE,
                message |-> <<"Potential SQL injection pattern detected">>]

\* s holds no comment: no line-comment marker and no closed block comment
HasNoComments(s) ==
  /\ ~Contains(s, LineMarker)
  /\ ~\E i \in 1..Len(s) : MatchAt(s, i, BlockOpen) /\ FirstBlockClose(s, i + 2) # 0

\* s holds a denylisted keyword, in any letter case, as a whole word
KeywordAsWholeWord(s) ==
  \E i \in 1..Len(s) :
    /\ (i = 1 \/ ~IsWordChar(s[i - 1]))
    /\ \E k \in 1..Len(DANGEROUS_KEYWORDS) :
         LET w == DANGEROUS_KEYWORDS[k].word
         IN  /\ i + Len(w) - 1 <= Len(s)
             /\ \A j \in 1..Len(w) : UpperChar(s[i + j - 1]) = w[j]
             /\ (i + Len(w) > Len(s) \/ ~IsWordChar(s[i + Len(w)]))

\* C13: a string without comments that begins with SELECT, holds no denylisted
\* keyword as a whole word (an identifier such as DROPPED is no keyword) and
\* has at most one semicolon is classified Safe.
C13_PlainSelectSafe ==
  ( /\ Classified
    /\ HasNoComments(input)
    /\ count(input, ";") <= 1
    /\ BeginsWithSelect(strip(input))
    /\ ~KeywordAsWholeWord(input) )
  => verdict = [safe |-> TRUE, message |-> <<"Query is safe">>]

\* C13 case: 'SELECT DrOpPED', which reads DROPPED in upper case, was classified
C13_Witness ==
  /\ Classified
  /\ input = SELECT \o <<" ">> \o <<"D","r","O","p">> \o <<"P","E","D">>
  /\ verdict.safe

\* the word LIMIT, in any letter case, stands at position i of s as a whole
\* word outside every comment and is followed by blanks and the number n
LimitClauseAt(s, i, n) ==
  /\ i + Len(LIMIT) - 1 <= Len(s)
  /\ \A j \in 1..Len(LIMIT) : UpperChar(s[i + j - 1]) = LIMIT[j]
  /\ (i = 1 \/ ~IsWordChar(s[i - 1]))
  /\ (i..(i + Len(LIMIT) - 1)) \cap CommentPositions(s, 1) = {}
  /\ \E d \in (i + Len(LIMIT) + 1)..Len(s) :
       /\ \A k \in (i + Len(LIMIT))..(d - 1) : IsSpace(s[k])
       /\ MatchAt(s, d, IntToStr(n))
       /\ (d + Len(IntToStr(n)) > Len(s) \/ ~IsWordChar(s[d + Len(IntToStr(n))]))

\* the numbers a limit clause of the model's texts can name
LimitValues == DefaultLimits \cup {5}

\* number of row-limiting clauses of s
LimitClauses(s) ==
  Cardinality({i \in 1..Len(s) : \E n \in LimitValues : LimitClauseAt(s, i, n)})

\* s has a row-limiting clause
HasLimitClause(s) == LimitClauses(s) >= 1

\* s has a row-limiting clause that bounds the result to n rows
BoundsTo(s, n) == \E i \in 1..Len(s) : LimitClauseAt(s, i, n)

\* C14: every statement passed to the Executor holds a row-limiting clause,
\* and when the generated SQL had none the executed statement bounds the
\* result to default_limit rows.
C14_ExecutedStatementsLimited ==
  \A i \in 1..Len(executed) :
    /\ HasLimitClause(executed[i])
    /\ ~HasLimitClause(generated) => BoundsTo(executed[i], default_limit)

(***************************************************************************)
(* Properties of the statement normaliser.                                 *)
(***************************************************************************)
\* s ends in exactly one terminator character
EndsInOneTerminator(s) ==
  /\ Len(s) >= 1
  /\ s[Len(s)] = ";"
  /\ (Len(s) = 1 \/ s[Len(s) - 1] # ";")

\* C15: whatever number of trailing terminators the input has, clean_sql
\* returns a string that ends in exactly one terminator character.
C15_CleanOneTerminator ==
  cleaned # Pending => EndsInOneTerminator(cleaned)

\* C16: add_limit_if_missing is idempotent: applied to its own result, with
\* the same limit, it returns that result.
C16_AddLimitIdempotent ==
  relimited # Pending => relimited = limited

\* C16 case: the first application appended a clause, the second changed nothing
C16_Witness ==
  /\ relimited # Pending
  /\ limited # raw
  /\ relimited = limited
  /\ Len(raw) > 0

\* C17: for an input without a row-limiting clause the output holds exactly
\* one, with the value default_limit, followed by one terminator; an input
\* that has a row-limiting clause is returned unchanged.
C17_AddLimitExactlyOne ==
  limited # Pending =>
     IF HasLimitClause(raw)
       THEN limited = raw
       ELSE /\ LimitClauses(limited) = 1
            /\ BoundsTo(limited, limit)
            /\ endswith(limited, LIMIT \o <<" ">> \o IntToStr(limit) \o <<";">>)
            /\ ~endswith(limited, <<";", ";">>)

(***************************************************************************)
(* Properties of the Executor boundary.                                    *)
(***************************************************************************)
\* C18: on every exit path of execute_sql, by return or by exception, the
\* connection and the cursor it acquired are released: the call leaves no
\* more connections open than it found.
C18_ExecuteReleasesConnection ==
  [][pc = "execute" => open_conns' = open_conns]_vars

\* the message texts the driver raises with
DriverErrorTexts == {o.msg : o \in {d \in DbOutcomes : d.kind # "ok"}}

\* C19: for every driver-level error of an attempt, connection failure
\* included, the failure recorded for the attempt carries the driver's own
\* message text.
C19_FailureCarriesDriverText ==
  \A i \in 1..Len(log) :
    log[i].stage = "execute" => log[i].message \in DriverErrorTexts

(***************************************************************************)
(* Properties of the order of normalisation and gating.                    *)
(***************************************************************************)
\* s is in the form clean_sql produces: no code fence, blanks only as single
\* spaces between words, a terminator at the end
IsCleaned(s) ==
  /\ ~Contains(s, Fence)
  /\ \A i \in 1..Len(s) : IsSpace(s[i]) => s[i] = " "
  /\ \A i \in 1..(Len(s) - 1) : ~(s[i] = " " /\ s[i + 1] = " ")
  /\ Len(s) >= 1 /\ s[1] # " "
  /\ endswith(s, <<";">>)

\* C20: on every attempt the text the generator returned has passed through
\* clean_sql when it reaches the gate: the gate's argument is the cleaned
\* form of the last response, never the raw response.
C20_GateSeesCleanedText ==
  pc = "gate" =>
     /\ generated # None
     /\ sql = clean_sql(strip(generated))
     /\ IsCleaned(sql)

\* C20 case: a fenced response stands at the gate without its fence
C20_Witness ==
  /\ pc = "gate"
  /\ generated = GenFenced
  /\ sql # generated
  /\ BeginsWithSelect(sql)

(***************************************************************************)
(* Properties of the order of the steps of one attempt.                    *)
(***************************************************************************)
\* the text generate_sql returned for the last response
Returned == clean_sql(strip(generated))

\* C21: the steps of an attempt occur in the order generate, gate, enforce
\* limit, execute: the limit is enforced only on text the gate classified
\* Safe, and the Executor is invoked only with the output of the limit
\* enforcement on such text.
C21_GateThenLimitThenExecute ==
  /\ pc = "execute" =>
        /\ generated # None
        /\ \E t \in {Returned} :
             /\ is_safe_query(t).safe
             /\ sql = add_limit_if_missing(t, default_limit)
  /\ \A i \in 1..Len(executed) :
        /\ generated # None
        /\ \E t \in {Returned} :
             /\ is_safe_query(t).safe
             /\ executed[i] = add_limit_if_missing(t, default_limit)

\* C21 case: a Safe statement without a limit was executed with the limit added
C21_Witness ==
  /\ Len(executed) = 1
  /\ generated = GenCount
  /\ executed[1] # Returned
  /\ BoundsTo(executed[1], default_limit)

(***************************************************************************)
(* Properties of the schema cache.                                         *)
(***************************************************************************)
\* C22: the schema context is computed at most once per agent: once a
\* load_schema_context call has succeeded, every later call, in the same
\* Session or a later one, returns the cached string and opens no connection.
C22_SchemaLoadedOnce ==
  [][(schema_context # None /\ pc = "generate") =>
       (schema_context' = schema_context /\ ~introspected')]_vars

\* C22 case: a second Session built its request from the cached schema
\* without a connection having been opened for it
C22_Witness ==
  /\ sessions = 2
  /\ schema_context = SchemaText
  /\ ~introspected
  /\ Len(requests) = 1
  /\ requests[1].prompt.schema = SchemaText

(***************************************************************************)
(* Properties of recovery and of the ways a Session returns.               *)
(***************************************************************************)
\* exception classes raised by what a collaborator (schema provider, generator,
\* database) did, as opposed to the orchestrator's own statements
CollaboratorFailures ==
  {"APIError", "OperationalError", "ProgrammingError", "UnboundLocalError"}

\* attempt k of the finished Session ended in an execution failure with budget
\* left, and in every later attempt no collaborator failed and the gate turned
\* nothing down
RecoveredAfter(k) ==
  /\ pc = "done"
  /\ k < max_retries
  /\ k <= Len(log)
  /\ log[k].stage = "execute"
  /\ \A i \in (k + 1)..Len(log) :
       /\ log[i].cls \notin CollaboratorFailures
       /\ log[i].stage # "gate"

\* C23: a Session can recover: when attempt k < max_attempts ends in an
\* execution failure and the following error-recovery request is answered
\* with Safe SQL that executes without error, the Session ends in Success
\* with attempt index k + 1.
C23_RecoversAfterExecutionFailure ==
  \A k \in 1..Len(log) :
    RecoveredAfter(k) =>
       /\ result.kind = "success"
       /\ result.attempt = k + 1

(***************************************************************************)
(* Properties of the calls made on the driver.                             *)
(***************************************************************************)
\* positions of the driver calls with the given operation and argument
CallsOf(op, arg) ==
  {i \in 1..Len(driver_calls) : driver_calls[i] = DriverCall(op, arg)}

\* positions of the driver calls with the given operation
CallsTo(op) == {i \in 1..Len(driver_calls) : driver_calls[i].op = op}

\* C24: in each Executor invocation the statement timeout is set before the
\* candidate statement is executed, on the same connection and cursor; the
\* candidate statement is executed once, and rows are fetched only after it.
C24_TimeoutThenStatementThenFetch ==
  driver_calls # <<>> =>
    LET statement == executed[Len(executed)]
        timeouts == CallsOf("execute", SetTimeoutStatement(query_timeout))
        statements == CallsOf("execute", statement)
    IN  /\ Cardinality(CallsTo("connect")) = 1
        /\ Cardinality(CallsTo("cursor")) <= 1
        /\ Cardinality(statements) <= 1
        /\ CallsTo("execute") = timeouts \cup statements
        /\ \A i \in statements : \E j \in timeouts : j < i
        /\ \A i \in CallsTo("fetchall") : \E j \in statements : j < i
        /\ (pc = "done" /\ result.kind = "success") =>
              /\ Cardinality(statements) = 1
              /\ Cardinality(CallsTo("fetchall")) = 1

\* C24 case: an invocation that set the timeout, executed the statement and
\* fetched its rows
C24_Witness ==
  /\ pc = "done"
  /\ result.kind = "success"
  /\ Len(driver_calls) = 8
  /\ driver_calls[4] = DriverCall("execute", result.sql)

\* C25: with max_attempts >= 1 the fall-through result 'Unknown error
\* occurred' is unreachable: every Session returns the Success result, the
\* unsafe-SQL Failure or the 'Failed after N attempts' Failure with
\* N = max_attempts.
C25_FallThroughUnreachable ==
  (max_retries >= 1 /\ pc = "done") =>
     /\ result.kind \in {"success", "unsafe", "exhausted"}
     /\ result # UnknownResult(result.sql)
     /\ result.kind = "exhausted" =>
          result.error = ExhaustedText(max_retries, error)

\* C25 case: the only attempt of a budget of one failed at the Executor, and
\* the Session returned the attempts-exhausted Failure
C25_Witness ==
  /\ pc = "done"
  /\ max_retries = 1
  /\ Len(log) = 1
  /\ log[1].stage = "execute"
  /\ result.error = ExhaustedText(1, error)

(***************************************************************************)
(* Properties of the validator functions taken together.                   *)
(***************************************************************************)
\* the limit was enforced on a text classified Safe and the result classified
Reclassified == verdict.safe /\ limited # Pending

Uncommented(s) ==
  LET kept == {i \in 1..Len(s) : i \notin CommentPositions(s, 1)}
  IN  [k \in 1..Cardinality(kept) |->
         s[CHOOSE i \in kept : Cardinality({j \in kept : j <= i}) = k]]

\* s holds a block comment whose body is the line-comment marker, and no
\* comment marker stands before it
MarkerInsideBlockComment(s) ==
  \E i \in 1..Len(s) :
    /\ MatchAt(s, i, BlockWithMarker)
    /\ \A j \in 1..(i - 1) :
         ~MatchAt(s, j, LineMarker) /\ ~MatchAt(s, j, BlockOpen)

\* C27: _remove_comments removes only text that belongs to a comment: when
\* the line-comment marker occurs inside a block comment, the text after the
\* closing of the block comment is kept and scanned, so a denylisted keyword
\* or a second statement that follows it makes the verdict Unsafe.
C27_MarkerInBlockKeepsRest ==
  (Classified /\ MarkerInsideBlockComment(input)) =>
     /\ _remove_comments(input) = Uncommented(input)
     /\ (KeywordOutsideComment(input) \/ SemicolonsOutsideComments(input) >= 2)
          => ~verdict.safe

====
